---- MODULE Spec2Model ----
(***************************************************************************)
(* The palette session of colordropper.py: the widgets' values, the undo   *)
(* stack, the pixel datasets, and one action per event handler.            *)
(*                                                                         *)
(* Strings are sequences of one-character strings, so that formatting,     *)
(* splitting, trimming and joining are computed and not assumed.           *)
(* Real numbers are fixed-point: a click coordinate is k / CoordDen, a     *)
(* colour channel is k / ChanDen.                                          *)
(***************************************************************************)
EXTENDS Integers, Sequences, FiniteSets, TLC

\* ------------------------------------------------------------------ bounds
MaxPalette == 2
MaxUndo == 2
MaxTokens == 2
MaxSlider == 3
MaxBlock == 2
MaxNest == 4
CoordDen == 4
ChanDen == 4

\* ------------------------------------------------------- program constants
ChannelMax == 255
NumSliderStart == 2
NumSliderValue == 1
NumSliderEnd == 255
PixelateStart == 1

WHITE_SMOKE == <<"#", "f", "5", "f", "5", "f", "5">>
DEFAULT_CMAP == "RdBu_r"
HEXCODE == "Hexcode"
RGB_1 == "RGB (0 to 1)"
RGB_255 == "RGB (0 to 255)"
OutputModes == {HEXCODE, RGB_255, RGB_1}
Reducers == {"Mean", "Min", "Max"}

\* ------------------------------------------------------------ small helpers
Max2(a, b) == IF a >= b THEN a ELSE b
Min2(a, b) == IF a <= b THEN a ELSE b
Range(s) == {s[i] : i \in 1..Len(s)}

RECURSIVE SumSeq(_)
SumSeq(s) == IF s = <<>> THEN 0 ELSE Head(s) + SumSeq(Tail(s))

\* -------------------------------------------------------------- Color Codec
HexDigits == <<"0", "1", "2", "3", "4", "5", "6", "7",
               "8", "9", "a", "b", "c", "d", "e", "f">>
UpperHexDigits == {"A", "B", "C", "D", "E", "F"}

\* '{:02x}'.format(v) for 0 <= v <= 255
Hex2(v) == <<HexDigits[(v \div 16) + 1], HexDigits[(v % 16) + 1]>>

\* clamp(x) = int(max(0, min(x, 255))) on x = k / ChanDen; int() truncates
\* toward zero, which on the clamped (non-negative) value is the floor.
clampRound(k) ==
    LET m == Max2(0, Min2(k, ChannelMax * ChanDen))
    IN (2 * m + ChanDen) \div (2 * ChanDen)
clamp(k) ==
    LET m == Max2(0, Min2(k, ChannelMax * ChanDen))
    IN m \div ChanDen

\* rgb_to_hexcode(r, g, b, to_255) on channels k / ChanDen
rgb_to_hexcode(r, g, b, to_255) ==
    LET s == IF to_255 THEN ChannelMax ELSE 1
    IN <<"#">> \o Hex2(clamp(r * s)) \o Hex2(clamp(g * s)) \o Hex2(clamp(b * s))

\* ------------------------------------------------------------- text parsing
\* str.split(','): the pieces between commas, empty pieces kept
RECURSIVE SplitFrom(_, _, _)
SplitFrom(s, i, cur) ==
    IF i > Len(s) THEN <<cur>>
    ELSE IF s[i] = "," THEN <<cur>> \o SplitFrom(s, i + 1, <<>>)
    ELSE SplitFrom(s, i + 1, Append(cur, s[i]))
Split(s) == SplitFrom(s, 1, <<>>)

\* the characters str.strip() removes (those with str.isspace()); one a TLA+
\* string cannot spell is written by its code point, as one character
Whitespace ==
    {" ", "\t", "\n", "\r", "\f", "U+000B", "U+001C", "U+001D", "U+001E",
     "U+001F", "U+0085", "U+00A0", "U+1680", "U+2000", "U+2001", "U+2002",
     "U+2003", "U+2004", "U+2005", "U+2006", "U+2007", "U+2008", "U+2009",
     "U+200A", "U+2028", "U+2029", "U+202F", "U+205F", "U+3000"}
RECURSIVE LStrip(_)
LStrip(s) == IF s # <<>> /\ Head(s) \in Whitespace THEN LStrip(Tail(s)) ELSE s
RECURSIVE RStrip(_)
RStrip(s) ==
    IF s # <<>> /\ s[Len(s)] \in Whitespace
    THEN RStrip(SubSeq(s, 1, Len(s) - 1)) ELSE s
\* str.strip()
Strip(s) == RStrip(LStrip(s))

\* sep.join(parts)
RECURSIVE JoinWith(_, _)
JoinWith(parts, sep) ==
    IF parts = <<>> THEN <<>>
    ELSE IF Len(parts) = 1 THEN parts[1]
    ELSE parts[1] \o sep \o JoinWith(Tail(parts), sep)
Join(parts) == JoinWith(parts, <<",", " ">>)

\* ------------------------------------------------------------ Pixel Dataset
\* A dataset is a sequence of rows (Y), each a sequence of cells (X), each a
\* triple <<R, G, B>>; row 1 is Y = 0.
PixelA == <<255, 0, 0>>
PixelB == <<0, 0, 0>>
ExampleImage == << <<PixelA, PixelB, PixelA>>,
                   <<PixelB, PixelA, PixelB>> >>

Height(ds) == Len(ds)
Width(ds) == Len(ds[1])

CeilDiv(a, b) == (a + b - 1) \div b

\* the cells of tile (i, j) that exist: boundary='pad' pads with NaN, which
\* the reducers skip
Tile(ds, n, i, j, c) ==
    LET ys == (j * n) .. Min2(Height(ds) - 1, j * n + n - 1)
        xs == (i * n) .. Min2(Width(ds) - 1, i * n + n - 1)
    IN [k \in 1..(Cardinality(ys) * Cardinality(xs)) |->
          ds[(j * n) + ((k - 1) \div Cardinality(xs)) + 1]
            [(i * n) + ((k - 1) % Cardinality(xs)) + 1][c]]

Reduce(vals, reducer) ==
    IF reducer = "Mean" THEN SumSeq(vals) \div Len(vals)
    ELSE IF reducer = "Min" THEN CHOOSE v \in Range(vals) : \A u \in Range(vals) : v <= u
    ELSE CHOOSE v \in Range(vals) : \A u \in Range(vals) : v >= u

\* base_ds.coarsen(X=n, Y=n, boundary='pad').<reducer>().astype(int)
coarsen(ds, n, reducer) ==
    [j \in 1..CeilDiv(Height(ds), n) |->
       [i \in 1..CeilDiv(Width(ds), n) |->
          [c \in 1..3 |-> Reduce(Tile(ds, n, i - 1, j - 1, c), reducer)]]]

\* round(k / d): Python 3 rounds half to even
PyRound(k, d) ==
    LET q == k \div d
        r == k - q * d
    IN IF 2 * r < d THEN q
       ELSE IF 2 * r > d THEN q + 1
       ELSE IF q % 2 = 0 THEN q ELSE q + 1

\* ds.isel(X=i): an index in -n .. n-1 is taken, a negative one counted from
\* the end; any other raises IndexError
IselOK(i, n) == -n <= i /\ i < n
IselPos(i, n) == IF i < 0 THEN n + i ELSE i

\* ------------------------------------------------------------------ state
VARIABLES
    options,              \* multi_select.options: the Palette
    previous_selections,  \* the undo stack
    text_value,           \* text_input.value
    color_row,            \* color_row.objects: the swatch row
    num_value,            \* num_slider.value
    num_start,            \* num_slider.start
    plot_cmap,            \* the colormap handed to process_plot
    code_markdown,        \* the colours substituted into EXAMPLE_CODE
    divider,              \* divider_toggle.value
    embed,                \* embed_toggle.value
    highlight,            \* highlight_toggle.value
    output,               \* output_group.value
    pixelate_value,       \* pixelate_slider.value
    pixelate_group,       \* pixelate_group.value
    base_ds,              \* the full-resolution dataset
    image_ds,             \* image_pane.object.data: the dataset a click samples
    last,                 \* the last handler run: what it was and how it ended
    codec                 \* the last rgb_to_hexcode call: arguments and result

vars == <<options, previous_selections, text_value, color_row, num_value,
          num_start, plot_cmap, code_markdown, divider, embed, highlight,
          output, pixelate_value, pixelate_group, base_ds, image_ds, last,
          codec>>

\* The widgets a handler reads and writes, as one record, with the outcome of
\* the run: raised (the exception that left the handler, or "none"), caught
\* (the exception tap_update caught and printed), cell (the cell a click
\* read), reentries (watcher calls made while the handler ran), outer (the
\* options the handler's own call of update() assigned, as a 1-tuple).
Widgets ==
    [options |-> options, previous_selections |-> previous_selections,
     text_value |-> text_value, color_row |-> color_row,
     num_value |-> num_value, num_start |-> num_start,
     plot_cmap |-> plot_cmap, code_markdown |-> code_markdown,
     divider |-> divider, embed |-> embed, highlight |-> highlight,
     output |-> output,
     raised |-> "none", caught |-> "none", cell |-> <<>>, reentries |-> 0,
     outer |-> <<>>]

\* ------------------------------------------------------- Render Projections
make_color_row(w, color) ==
    [color |-> color,
     text |-> IF w.embed /\ Len(w.options) > 0 THEN color ELSE <<>>,
     highlight |-> w.highlight,
     divider |-> w.divider]

\* the filter at the head of update()
KeepOption(opt) == opt # <<>> /\ Len(opt) = 7 /\ opt[1] = "#"

\* what LinearSegmentedColormap.from_list accepts of a kept option: '#' and
\* six hex digits of either case; anything else raises ValueError
IsColor(opt) ==
    /\ Len(opt) = 7
    /\ opt[1] = "#"
    /\ \A i \in 2..7 : opt[i] \in Range(HexDigits) \cup UpperHexDigits

RECURSIVE slider_update(_, _)
\* num_slider.value = v: the value watcher (slider_update) runs when the
\* value changes
SetNumValue(w, v, fuel) ==
    IF v = w.num_value THEN w
    ELSE IF fuel = 0 THEN [w EXCEPT !.num_value = v, !.raised = "RecursionError"]
    ELSE slider_update([w EXCEPT !.num_value = v, !.reentries = @ + 1], fuel - 1)

SliderClampNone(w, num_options, fuel) == w
SliderClamp(w, num_options, fuel) ==
    IF w.num_value < num_options THEN SetNumValue(w, num_options, fuel) ELSE w

slider_update(w, fuel) ==
    LET opts == w.options
        num_options == Len(opts)
        w1 == SliderClamp(w, num_options, fuel)
    IN IF w1.raised # "none" THEN w1
       ELSE
       LET w2 == [w1 EXCEPT !.num_start = num_options]
           anchors == IF num_options = 1 THEN opts \o opts ELSE opts
       IN IF num_options > 0 /\ ~(\A i \in 1..Len(anchors) : IsColor(anchors[i]))
          THEN [w2 EXCEPT !.raised = "ValueError"]
          ELSE IF num_options > 0
          THEN [w2 EXCEPT
                  !.plot_cmap = [name |-> "interp_cmap", anchors |-> anchors,
                                 N |-> w2.num_value],
                  !.code_markdown = [anchors |-> anchors, N |-> w2.num_value,
                                     output |-> w2.output, wrapped |-> TRUE]]
          ELSE [w2 EXCEPT
                  !.plot_cmap = [name |-> DEFAULT_CMAP, anchors |-> <<>>, N |-> 0],
                  !.code_markdown = [anchors |-> <<>>, N |-> 0,
                                     output |-> w2.output, wrapped |-> TRUE]]

RECURSIVE update(_, _, _)
ParseNoStrip(new) == Split(new)
ParseOptions(new) == [i \in 1..Len(Split(new)) |-> Strip(Split(new)[i])]

text_input_update(w, new, fuel) == update(w, ParseOptions(new), fuel)

\* text_input.value = v: the value watcher (text_input_update) runs when the
\* value changes
SetTextValue(w, v, fuel) ==
    IF v = w.text_value THEN w
    ELSE IF fuel = 0 THEN [w EXCEPT !.text_value = v, !.raised = "RecursionError"]
    ELSE text_input_update([w EXCEPT !.text_value = v, !.reentries = @ + 1],
                           v, fuel - 1)

update(w, opts, fuel) ==
    LET kept == SelectSeq(opts, KeepOption)
        w0 == [w EXCEPT !.options = kept,
                        !.outer = IF w.reentries = 0 THEN <<kept>> ELSE @]
        w1 == SetTextValue(w0, Join(kept), fuel)
    IN IF w1.raised # "none" THEN w1
       ELSE
       LET shown == IF Len(kept) = 0 THEN <<WHITE_SMOKE>> ELSE kept
           w2 == [w1 EXCEPT !.color_row =
                     [i \in 1..Len(shown) |-> make_color_row(w1, shown[i])]]
       IN slider_update(w2, fuel)

\* ----------------------------------------------------------------- handlers
\* A Tap event argument: the event object of a changed coordinate, or the
\* default 0 of tap_update(x=0, y=0), which has no attribute 'new'.
Event(k) == [has |-> TRUE, new |-> k]
NoEvent == [has |-> FALSE, new |-> 0]

Push(w) == [w EXCEPT !.previous_selections = Append(@, w.options)]

tap_update(w, ds, x, y) ==
    LET w0 == Push(w)
    IN IF ~(x.has /\ y.has) THEN [w0 EXCEPT !.caught = "AttributeError"]
       ELSE
       LET xi == PyRound(x.new, CoordDen)
           yi == PyRound(y.new, CoordDen)
       IN IF ~(IselOK(xi, Width(ds)) /\ IselOK(yi, Height(ds)))
          THEN [w0 EXCEPT !.caught = "IndexError"]
          ELSE
          LET cx == IselPos(xi, Width(ds))
              cy == IselPos(yi, Height(ds))
              px == ds[cy + 1][cx + 1]
              hexcode == rgb_to_hexcode(px[1] * ChanDen, px[2] * ChanDen,
                                        px[3] * ChanDen, FALSE)
          IN update([w0 EXCEPT !.cell = <<cx, cy>>],
                    w0.options \o <<hexcode>>, MaxNest)

RemovePushAfter(w, value) ==
    LET NotSelected(v) == v \notin value
        left == SelectSeq(w.options, NotSelected)
    IN update([w EXCEPT !.previous_selections = Append(@, left)], left, MaxNest)
remove_update(w, value) ==
    LET NotSelected(v) == v \notin value
    IN update(Push(w), SelectSeq(w.options, NotSelected), MaxNest)

UndoKeep(w) == w
undo_update(w) ==
    IF w.previous_selections = <<>> THEN [w EXCEPT !.raised = "IndexError"]
    ELSE LET top == w.previous_selections[Len(w.previous_selections)]
             w0 == [w EXCEPT !.previous_selections = SubSeq(@, 1, Len(@) - 1)]
         IN update(w0, top, MaxNest)

clear_update(w) == update(Push(w), <<>>, MaxNest)

TogglePush(w) == update(Push(w), w.options, MaxNest)
toggle_update(w) == update(w, w.options, MaxNest)

pixelate_update(ds, n, reducer) == coarsen(ds, n, reducer)

\* ------------------------------------------------------------------- inputs
TextTokens ==
    { <<" ", "\n", "#", "0", "0", "0", "0", "0", "0", "U+00A0", "\r">>,
      <<"#", "z", "z", "z", "z", "z", "z">>,
      <<"#", "f", "f", "f">>,
      <<"f", "f", "0", "0", "0", "0", "0">> }

RawTexts ==
    { JoinWith(ts, <<",">>) :
        ts \in UNION { [1..n -> TextTokens] : n \in 0..MaxTokens } }

\* click coordinates along an axis of n cells, in units of 1 / CoordDen
TapCoords(n) ==
    { -(n + 1) * CoordDen, -CoordDen - 1, CoordDen \div 2, CoordDen - 1,
      n * CoordDen }

\* ------------------------------------------------------------------ actions
\* what the last run was, a click that read no cell told apart
OpKind(l) == IF l.op = "tap" /\ l.cell = <<>> THEN "tapfail" ELSE l.op

\* last.before is the Palette before the run (of a click, Remove or Clear; of
\* an Undo, the Palette before the run it followed, with last.prev that run).
Commit(w, op, before) ==
    /\ options' = w.options
    /\ previous_selections' = w.previous_selections
    /\ text_value' = w.text_value
    /\ color_row' = w.color_row
    /\ num_value' = w.num_value
    /\ num_start' = w.num_start
    /\ plot_cmap' = w.plot_cmap
    /\ code_markdown' = w.code_markdown
    /\ divider' = w.divider
    /\ embed' = w.embed
    /\ highlight' = w.highlight
    /\ output' = w.output
    /\ last' = [op |-> op, raised |-> w.raised, caught |-> w.caught,
                cell |-> w.cell, reentries |-> w.reentries,
                outer |-> w.outer,
                before |-> IF op = "undo" THEN last.before ELSE before,
                prev |-> IF op = "undo" THEN OpKind(last) ELSE "none"]

Init ==
    /\ options = <<>>
    /\ previous_selections = <<>>
    /\ text_value = <<>>
    /\ color_row = <<[color |-> WHITE_SMOKE, text |-> <<>>,
                      highlight |-> FALSE, divider |-> FALSE]>>
    /\ num_value = NumSliderValue
    /\ num_start = NumSliderStart
    /\ plot_cmap = [name |-> DEFAULT_CMAP, anchors |-> <<>>, N |-> 0]
    /\ code_markdown = [anchors |-> <<>>, N |-> 0, output |-> HEXCODE,
                        wrapped |-> FALSE]
    /\ divider = FALSE
    /\ embed = TRUE
    /\ highlight = FALSE
    /\ output = HEXCODE
    /\ pixelate_value = PixelateStart
    /\ pixelate_group = "Mean"
    /\ base_ds = ExampleImage
    /\ image_ds = ExampleImage
    /\ last = [op |-> "init", raised |-> "none", caught |-> "none",
               cell |-> <<>>, reentries |-> 0, outer |-> <<>>,
               before |-> <<>>, prev |-> "none"]
    /\ codec = [r |-> 0, g |-> 0, b |-> 0, to_255 |-> FALSE,
                hex |-> rgb_to_hexcode(0, 0, 0, FALSE)]

Ran(op) == [op |-> op, raised |-> "none", caught |-> "none", cell |-> <<>>,
            reentries |-> 0, outer |-> <<>>, before |-> <<>>, prev |-> "none"]

Session == <<pixelate_value, pixelate_group, base_ds, image_ds, codec>>

TapAt(x, y) ==
    /\ Len(previous_selections) < MaxUndo
    /\ Len(options) < MaxPalette
    /\ Commit(tap_update(Widgets, image_ds, Event(x), Event(y)), "tap",
              <<options>>)
    /\ UNCHANGED Session
Tap == \E x \in TapCoords(Width(image_ds)), y \in TapCoords(Height(image_ds)) :
          TapAt(x, y)

\* a click that changes one coordinate only: the watcher passes one event
TapOneAt(k) ==
    /\ Len(previous_selections) < MaxUndo
    /\ Commit(tap_update(Widgets, image_ds, Event(k), NoEvent), "tap",
              <<options>>)
    /\ UNCHANGED Session
TapOne == \E k \in TapCoords(Width(image_ds)) : TapOneAt(k)

RemoveOf(value) ==
    /\ Len(previous_selections) < MaxUndo
    /\ Commit(remove_update(Widgets, value), "remove", <<options>>)
    /\ UNCHANGED Session
Remove == \E value \in SUBSET Range(options) : RemoveOf(value)

Undo ==
    /\ Commit(undo_update(Widgets), "undo", <<>>)
    /\ UNCHANGED Session

Clear ==
    /\ Len(previous_selections) < MaxUndo
    /\ Commit(clear_update(Widgets), "clear", <<options>>)
    /\ UNCHANGED Session

TextEditTo(raw) ==
    /\ raw # text_value
    /\ Commit(text_input_update([Widgets EXCEPT !.text_value = raw], raw,
                                MaxNest), "text", <<>>)
    /\ UNCHANGED Session
TextEdit == \E raw \in RawTexts : TextEditTo(raw)

ToggleDivider ==
    /\ Commit(toggle_update([Widgets EXCEPT !.divider = ~divider]), "toggle", <<>>)
    /\ UNCHANGED Session
ToggleEmbed ==
    /\ Commit(toggle_update([Widgets EXCEPT !.embed = ~embed]), "toggle", <<>>)
    /\ UNCHANGED Session
ToggleHighlight ==
    /\ Commit(toggle_update([Widgets EXCEPT !.highlight = ~highlight]), "toggle", <<>>)
    /\ UNCHANGED Session
OutputMode ==
    \E m \in OutputModes \ {output} :
        /\ Commit(toggle_update([Widgets EXCEPT !.output = m]), "toggle", <<>>)
        /\ UNCHANGED Session

NumSlider ==
    \E v \in (num_start .. Min2(NumSliderEnd, MaxSlider)) \ {num_value} :
        /\ Commit(slider_update([Widgets EXCEPT !.num_value = v], MaxNest),
                  "slider", <<>>)
        /\ UNCHANGED Session

Pixelate(n, reducer) ==
    /\ pixelate_value' = n
    /\ pixelate_group' = reducer
    /\ image_ds' = pixelate_update(base_ds, n, reducer)
    /\ last' = Ran("pixelate")
    /\ UNCHANGED <<options, previous_selections, text_value, color_row,
                   num_value, num_start, plot_cmap, code_markdown, divider,
                   embed, highlight, output, base_ds, codec>>
PixelateSlider ==
    \E n \in (PixelateStart .. MaxBlock) \ {pixelate_value} :
        Pixelate(n, pixelate_group)
PixelateGroup ==
    \E reducer \in Reducers \ {pixelate_group} :
        Pixelate(pixelate_value, reducer)

\* process_input: a new image replaces base_ds and is shown at full
\* resolution; the pixelation widgets keep their values
OtherImage == << <<PixelB, PixelA>>,
                 <<PixelA, PixelB>>,
                 <<PixelB, PixelB>> >>
Images == {ExampleImage, OtherImage}
LoadImage ==
    \E img \in Images \ {base_ds} :
        /\ base_ds' = img
        /\ image_ds' = img
        /\ last' = Ran("load")
        /\ UNCHANGED <<options, previous_selections, text_value, color_row,
                       num_value, num_start, plot_cmap, code_markdown,
                       divider, embed, highlight, output, pixelate_value,
                       pixelate_group, codec>>

\* a call of rgb_to_hexcode on channels k / ChanDen: plain (0 to 255) or
\* normalized (0 to 1, to_255=True)
ChannelInputs(to_255) ==
    IF to_255
    THEN {-1, 0, 1, ChanDen \div 2, ChanDen - 1, ChanDen, ChanDen + 1}
    ELSE {-1, 0, ChanDen - 1, 127 * ChanDen + (ChanDen \div 2),
          254 * ChanDen + ChanDen - 1, ChannelMax * ChanDen,
          ChannelMax * ChanDen + 1}
Convert ==
    \E to_255 \in BOOLEAN :
      \E r \in ChannelInputs(to_255), g \in ChannelInputs(to_255),
         b \in ChannelInputs(to_255) :
        /\ codec' = [r |-> r, g |-> g, b |-> b, to_255 |-> to_255,
                     hex |-> rgb_to_hexcode(r, g, b, to_255)]
        /\ UNCHANGED <<options, previous_selections, text_value, color_row,
                       num_value, num_start, plot_cmap, code_markdown,
                       divider, embed, highlight, output, pixelate_value,
                       pixelate_group, base_ds, image_ds, last>>

Next ==
    \/ Tap
    \/ TapOne
    \/ Remove
    \/ Undo
    \/ Clear
    \/ TextEdit
    \/ NumSlider

\* The palette-editing session: clicks, Remove, Undo, Clear, text edits and
\* the colour-count slider, with the render configuration as constructed.
Spec == Init /\ [][Next]_vars

\* The render configuration and the preview: toggles, output format,
\* pixelation and image load, over palettes built by clicks and Clear.
NextView ==
    \/ Tap
    \/ Clear
    \/ ToggleDivider
    \/ ToggleEmbed
    \/ ToggleHighlight
    \/ OutputMode
    \/ PixelateSlider
    \/ PixelateGroup
    \/ LoadImage
SpecView == Init /\ [][NextView]_vars

\* The colour codec alone, over fractional and out-of-range channels.
NextCodec == Convert
SpecCodec == Init /\ [][NextCodec]_vars

\* ------------------------------------------------------------------ claims
Abs(a) == IF a < 0 THEN -a ELSE a
HexVal(c) == CHOOSE v \in 0..15 : HexDigits[v + 1] = c
\* the #RRGGBB shape: '#' and six lowercase hex digits
IsHexcode(h) ==
    /\ Len(h) = 7
    /\ h[1] = "#"
    /\ \A i \in 2..7 : h[i] \in Range(HexDigits)

\* C1: Add (a click that sampled a cell), Remove or Clear, followed at once
\* by Undo, leaves the Palette equal to its value before that operation.
C1_UndoRestores ==
    (last.op = "undo" /\ last.prev \in {"tap", "remove", "clear"})
        => (last.before # <<>> /\ options = last.before[1])
C1_Witness ==
    /\ last.op = "undo"
    /\ last.prev = "remove"
    /\ Len(options) = 2
    /\ options[1] # options[2]

\* C2: every mutation other than Undo (Add, Remove, Clear, SetFromText)
\* appends exactly one snapshot, the Palette as it was before the operation.
C2_EveryMutationPushes ==
    [][last'.op \in {"tap", "remove", "clear", "text"}
        => previous_selections' = Append(previous_selections, options)]_vars

\* C3: every entry of the Palette has the shape #[0-9a-f]{6}.
C3_PaletteIsHexcodes == \A i \in 1..Len(options) : IsHexcode(options[i])

\* C4: Undo on an empty undo stack ends in an error (IndexError) and leaves
\* the Palette, the undo stack and the render projections as they were.
C4_EmptyUndoFails ==
    [][(last'.op = "undo" /\ previous_selections = <<>>)
        => /\ last'.raised = "IndexError"
           /\ UNCHANGED <<options, previous_selections, text_value,
                          color_row, num_value, num_start, plot_cmap,
                          code_markdown>>]_vars
C4_Witness ==
    /\ last.op = "undo"
    /\ last.raised = "IndexError"
    /\ previous_selections = <<>>
    /\ options # <<>>

\* C5: a click that fails to sample leaves the Palette and the undo stack
\* as they were.
C5_FailedClickIgnored ==
    [][(last'.op = "tap" /\ last'.caught # "none")
        => UNCHANGED <<options, previous_selections>>]_vars

\* the colormap on display was interpolated from the present Palette by the
\* last handler run
Interpolated ==
    /\ Len(options) > 0
    /\ last.op \in {"tap", "remove", "undo", "clear", "text", "toggle", "slider"}
    /\ last.raised = "none"
    /\ last.caught = "none"

\* C6 as claimed: the number of interpolated colours is at least
\* max(2, |Palette|).
C6_AtLeastTwo ==
    Interpolated => plot_cmap.N >= Max2(2, Len(options))
\* C6 as amended: the number of interpolated colours is the slider's value,
\* at least |Palette| and at least 1.
C6_AtLeastPalette ==
    Interpolated =>
        /\ plot_cmap.name = "interp_cmap"
        /\ plot_cmap.N = num_value
        /\ plot_cmap.N >= Len(options)
        /\ plot_cmap.N >= 1
        /\ code_markdown.N = plot_cmap.N
C6_Witness ==
    /\ Interpolated
    /\ last.reentries > 0
    /\ Len(options) = 2
    /\ plot_cmap.N = 2

\* C7: a click at (x, y) reads the in-bounds cell nearest to (x, y).
NearestOnAxis(c, k, n) ==
    /\ c \in 0..(n - 1)
    /\ \A d \in 0..(n - 1) : Abs(c * CoordDen - k) <= Abs(d * CoordDen - k)
C7_NearestCell ==
    [][\A x \in TapCoords(Width(image_ds)), y \in TapCoords(Height(image_ds)) :
          TapAt(x, y) =>
              /\ last'.cell # <<>>
              /\ NearestOnAxis(last'.cell[1], x, Width(image_ds))
              /\ NearestOnAxis(last'.cell[2], y, Height(image_ds))]_vars

\* the channel k / ChanDen as rgb_to_hexcode sees it after scaling, clamped
ClampedChannel(k) ==
    Max2(0, Min2(k * (IF codec.to_255 THEN ChannelMax ELSE 1),
                 ChannelMax * ChanDen))
\* the value of the two hex digits emitted for channel c (1, 2, 3)
Emitted(c) == 16 * HexVal(codec.hex[2 * c]) + HexVal(codec.hex[2 * c + 1])
CodecChannels == <<codec.r, codec.g, codec.b>>

\* C8 as claimed: the two digits are the clamped channel rounded to nearest.
C8_RoundsToNearest ==
    \A c \in 1..3 :
        2 * Abs(ClampedChannel(CodecChannels[c]) - Emitted(c) * ChanDen) <= ChanDen
\* C8 as amended: the two digits are the clamped channel truncated (floor).
C8_Truncates ==
    /\ IsHexcode(codec.hex)
    /\ \A c \in 1..3 :
        /\ Emitted(c) * ChanDen <= ClampedChannel(CodecChannels[c])
        /\ ClampedChannel(CodecChannels[c]) < (Emitted(c) + 1) * ChanDen
C8_Witness ==
    /\ codec.to_255
    /\ codec.r = 1
    /\ 2 * (ClampedChannel(codec.r) % ChanDen) > ChanDen
    /\ Emitted(1) = ClampedChannel(codec.r) \div ChanDen

\* C9: toggles, the output format and pixelation leave the Palette and the
\* undo stack unchanged; pixelation leaves base_ds unchanged.
C9_ConfigKeepsPalette ==
    [][/\ last'.op \in {"toggle", "pixelate"}
            => UNCHANGED <<options, previous_selections>>
       /\ last'.op = "pixelate" => UNCHANGED base_ds]_vars
C9_Witness ==
    /\ last.op = "toggle"
    /\ divider
    /\ Len(options) = 2
    /\ previous_selections # <<>>
    /\ image_ds # base_ds

\* C10: the watcher cascade of a handler ends (no RecursionError, at most
\* two re-entries), pushes nothing, and leaves the Palette the handler's own
\* update() assigned and the text field equal to the entries joined by ', '.
C10_CascadeSettles ==
    [][/\ last'.raised # "RecursionError"
       /\ last'.reentries <= 2
       /\ last'.outer # <<>> => options' = last'.outer[1]
       /\ text_value' = Join(options')
       /\ previous_selections' \in
            {previous_selections, Append(previous_selections, options),
             SubSeq(previous_selections, 1, Len(previous_selections) - 1)}
      ]_vars
C10_Witness ==
    /\ last.reentries = 2
    /\ last.raised = "none"
    /\ Len(options) = 2
    /\ text_value = Join(options)

====
